---- MODULE Spec2Model ----
(***************************************************************************)
(* Model of streamlit_app.py: the image annotation tool.  One behaviour is *)
(* one browser session: every user event re-executes main() from the top;  *)
(* session_state, the widget values and the local file system persist      *)
(* between the runs, everything else is rebuilt by each run.               *)
(***************************************************************************)
EXTENDS Integers, Sequences, FiniteSets, TLC

\* ---------------------------------------------------------------- bounds
MaxSession == 2    \* the user stops clicking 'Save Annotation' at this length
MaxFiles == 1      \* the user stops causing temporary files at this count

None == "None"

\* ------------------------------------------------------- the environment
\* Files the remote folder can hold; id3 carries the same title as id1.
RemoteFiles ==
  { [id |-> "id1", title |-> "a.jpg"],
    [id |-> "id2", title |-> "b.png"],
    [id |-> "id3", title |-> "a.jpg"] }

\* What drive.ListFile(...).GetList() can answer when it does not raise.
Listings ==
  { << >>,
    << [id |-> "id1", title |-> "a.jpg"], [id |-> "id2", title |-> "b.png"],
       [id |-> "id3", title |-> "a.jpg"] >> }

\* image.shape of every image of the folder: (height, width)
ImageShape == << 1, 1 >>

Titles == { f.title : f \in RemoteFiles }

Labels == { "", "cat" }

\* What the file_uploader widget can hold: names split as os.path.splitext does.
UploaderContents ==
  { << >>,
    << [stem |-> "notes", ext |-> ".gif"] >>,
    << [stem |-> "notes", ext |-> ".gif"], [stem |-> "photo", ext |-> ".PNG"] >> }

NoClick == [button |-> "none", title |-> ""]
ExportClick == [button |-> "export", title |-> ""]
SaveClick(t) == [button |-> "save", title |-> t]

NoCalls == [list |-> 0, upload |-> 0, download |-> 0]
NoFiles == [temp_image |-> 0, tmp_img |-> 0, tmp_csv |-> 0]
NoInputs == [label |-> "", x_min |-> -1, y_min |-> -1, x_max |-> -1, y_max |-> -1]
NoCsv == << >>
NoImage == [title |-> "", image |-> None]

VARIABLES
  pc,             \* position of the running script, "idle" between runs
  status,         \* how the last run ended
  session_state,  \* st.session_state: a mapping, empty until line 188
  uploaded_files, \* value of the file_uploader widget
  sel,            \* value of the selectbox widget
  clicked,        \* the button whose click caused this run
  drive,          \* result of authenticate_drive in this run
  drive_images,   \* result of list_drive_images in this run
  shown,          \* the image download_image returned in this run
  inputs,         \* the label and the four numbers the save handler of this run read
  ui,             \* widgets rendered by this run
  notices,        \* messages surfaced by this run
  calls,          \* remote-store operations invoked by this run
  escaped,        \* remote-store operation an exception propagated out of
  created,        \* remote files created by this run
  files,          \* transient local files that exist
  csv             \* rows written by df.to_csv in this run

vars == << pc, status, session_state, uploaded_files, sel, clicked, drive,
           drive_images, shown, inputs, ui, notices, calls, escaped, created,
           files, csv >>

Session == IF "annotations" \in DOMAIN session_state
           THEN session_state["annotations"] ELSE << >>

\* ------------------------------------------------------- python values
PyStr(v) == [t |-> "str", s |-> v, n |-> 0]
PyInt(v) == [t |-> "int", s |-> "", n |-> v]
NaN == [t |-> "nan", s |-> "", n |-> 0]

\* A dict is the sequence of its items in insertion order.
DictKeys(d) == [i \in 1..Len(d) |-> d[i].key]
DictHas(d, k) == \E i \in 1..Len(d) : d[i].key = k
DictGet(d, k) == d[CHOOSE i \in 1..Len(d) : d[i].key = k].val
DictSet(d, k, v) ==
  IF DictHas(d, k)
  THEN [i \in 1..Len(d) |-> IF d[i].key = k THEN [key |-> k, val |-> v] ELSE d[i]]
  ELSE Append(d, [key |-> k, val |-> v])

\* ------------------------------------------------------------ constants
ALLOWED_IMAGE_EXTENSIONS == { ".jpg", ".jpeg", ".png" }

\* str.lower() on the extensions the uploader can deliver
Lower(ext) ==
  CASE ext = ".PNG" -> ".png"
    [] ext = ".JPG" -> ".jpg"
    [] ext = ".JPEG" -> ".jpeg"
    [] OTHER -> ext

\* main hands upload_to_drive the path of a temporary file, a str
PathArg == [kind |-> "str"]
HasNameAttr(file_obj) == file_obj.kind # "str"

\* ----------------------------------------------- remote-store operations
AuthAnswers == { "ok", "raise" }
ListAnswers == { [raises |-> TRUE, list |-> << >>] }
               \cup { [raises |-> FALSE, list |-> l] : l \in Listings }
UploadAnswers == { "ok", "raise" }
DownloadAnswers == { "fetch_raises", "not_an_image", "ok" }

\* lines 25-48: any failure of the GoogleAuth calls gives None
authenticate_drive(answer) == IF answer = "ok" THEN "drive" ELSE None

\* lines 76-95: a failure (also drive being None) gives the empty list
list_drive_images(drv, answer) ==
  IF drv = None \/ answer.raises THEN << >> ELSE answer.list

\* variant of upload_to_drive whose handler copes with a str argument
upload_to_drive_sentinel(file_obj, answer) ==
  IF HasNameAttr(file_obj) /\ answer = "ok" THEN "id" ELSE None

\* lines 51-73: result "id" (uploaded), None (caught failure) or "raised".
\* file_obj.name is read at line 64 and again in the handler at line 71:
\* for an object without that attribute the handler itself raises.
upload_to_drive(file_obj, answer) ==
  IF ~HasNameAttr(file_obj) THEN "raised"
  ELSE IF answer = "ok" THEN "id" ELSE None

\* lines 98-121: the image or None, and whether 'temp_image' is left behind.
\* GetContentFile creates the file only after the fetch succeeded; imread
\* answers None for content that is no image; os.remove precedes the test.
download_image(file_id, answer) ==
  LET fetched == answer # "fetch_raises"                    \* line 111
      written == IF fetched THEN 1 ELSE 0
      image == IF answer = "ok" THEN file_id ELSE None      \* line 112
      removed == IF fetched THEN 1 ELSE 0                   \* line 113
  IN [image |-> image, temp_image |-> written - removed]

\* ------------------------------------------------------------ the editor
\* line 193: {img['title']: img['id'] for img in drive_images}
RECURSIVE ImageOptions(_)
ImageOptions(imgs) ==
  IF imgs = << >> THEN << >>
  ELSE LET last == imgs[Len(imgs)]
       IN DictSet(ImageOptions(SubSeq(imgs, 1, Len(imgs) - 1)), last.title, last.id)

\* variants of the validation at line 213
InvalidCoordinatesStrict(x_min, y_min, x_max, y_max) == x_min > x_max \/ y_min > y_max
InvalidCoordinatesBoth(x_min, y_min, x_max, y_max) == x_min >= x_max /\ y_min >= y_max

\* line 213
InvalidCoordinates(x_min, y_min, x_max, y_max) == x_min >= x_max \/ y_min >= y_max

\* lines 217-224
Annotation(selected_image_title, label, x_min, y_min, x_max, y_max) ==
  << [key |-> "filename", val |-> PyStr(selected_image_title)],
     [key |-> "label", val |-> PyStr(label)],
     [key |-> "x_min", val |-> PyInt(x_min)],
     [key |-> "y_min", val |-> PyInt(y_min)],
     [key |-> "x_max", val |-> PyInt(x_max)],
     [key |-> "y_max", val |-> PyInt(y_max)] >>

\* variant of line 225 that skips a record the Session already holds
AppendUnlessPresent(annotations, annotation) ==
  IF \E i \in 1..Len(annotations) : annotations[i] = annotation
  THEN annotations ELSE Append(annotations, annotation)

\* line 225
AppendAnnotation(annotations, annotation) == Append(annotations, annotation)

\* ---------------------------------------------------------- the exporter
\* variant of line 233 that exports whatever the Session holds
HasAnnotationsAlways(annotations) == TRUE

\* line 233
HasAnnotations(annotations) == annotations # << >>

\* line 236: the columns of pd.DataFrame(list of dicts) are the keys in the
\* order they are first seen; a missing key gives NaN.
RECURSIVE AddKeys(_, _)
AddKeys(cols, ks) ==
  IF ks = << >> THEN cols
  ELSE AddKeys(IF \E i \in 1..Len(cols) : cols[i] = Head(ks)
               THEN cols ELSE Append(cols, Head(ks)), Tail(ks))

RECURSIVE Columns(_)
Columns(dicts) ==
  IF dicts = << >> THEN << >>
  ELSE AddKeys(Columns(SubSeq(dicts, 1, Len(dicts) - 1)), DictKeys(dicts[Len(dicts)]))

DataFrame(dicts) ==
  LET cols == Columns(dicts)
  IN [columns |-> cols,
      rows |-> [i \in 1..Len(dicts) |->
                  [j \in 1..Len(cols) |->
                     IF DictHas(dicts[i], cols[j]) THEN DictGet(dicts[i], cols[j]) ELSE NaN]]]

\* how to_csv writes one value
FormatCell(v) ==
  CASE v.t = "str" -> v.s
    [] v.t = "int" -> ToString(v.n)
    [] OTHER -> ""

\* variant of line 239 without index=False: a leading index column
to_csv_with_index(df) ==
  << << "" >> \o df.columns >> \o
  [i \in 1..Len(df.rows) |->
     << ToString(i - 1) >> \o [j \in 1..Len(df.rows[i]) |-> FormatCell(df.rows[i][j])]]

\* line 239: df.to_csv(path, index=False): the header row, then one row per record
to_csv(df) ==
  << df.columns >> \o [i \in 1..Len(df.rows) |->
                         [j \in 1..Len(df.rows[i]) |-> FormatCell(df.rows[i][j])]]

\* variant of lines 243-249 that clears the Session on both paths
SessionClearedAlways(annotations, raised) == << >>

\* lines 243-246 against 247-249: the Session after the export's try block
SessionAfterExport(annotations, raised) ==
  IF raised THEN annotations ELSE << >>

\* variant of lines 127-128 without st.stop()
NeverHalts(drv) == FALSE

\* lines 127-128
HaltsRun(drv) == drv = None

\* lines 160-178: the loop over the uploaded files.  acc carries the files,
\* calls, created and notices so far; raised is set when upload_to_drive
\* raises, which ends the loop (and main) before os.remove at line 178.
RECURSIVE UploadLoop(_, _, _)
UploadLoop(ufs, acc, answer) ==
  IF ufs = << >> \/ acc.raised THEN acc
  ELSE LET file_extension == Lower(Head(ufs).ext)
       IN IF file_extension \notin ALLOWED_IMAGE_EXTENSIONS
          THEN UploadLoop(Tail(ufs),
                          [acc EXCEPT !.notices = @ \cup {"unsupported_extension"}], answer)
          ELSE LET file_id == upload_to_drive(PathArg, answer)
                   made == [acc EXCEPT !.files.tmp_img = @ + 1, !.calls.upload = @ + 1]
               IN IF file_id = "raised"
                  THEN [made EXCEPT !.raised = TRUE]
                  ELSE UploadLoop(Tail(ufs),
                         [made EXCEPT
                            !.files.tmp_img = @ - 1,
                            !.created = @ + (IF file_id = "id" THEN 1 ELSE 0),
                            !.notices = @ \cup (IF file_id = "id"
                                                THEN {"uploaded"}
                                                ELSE {"upload_failed"})],
                         answer)

HasAllowed(ufs) ==
  \E i \in 1..Len(ufs) : Lower(ufs[i].ext) \in ALLOWED_IMAGE_EXTENSIONS

\* ------------------------------------------------------------------ Init
Init ==
  /\ pc = "idle"
  /\ status = "none"
  /\ session_state = << >>
  /\ uploaded_files = << >>
  /\ sel = ""
  /\ clicked = NoClick
  /\ drive = "unset"
  /\ drive_images = << >>
  /\ shown = NoImage
  /\ inputs = NoInputs
  /\ ui = {}
  /\ notices = {}
  /\ calls = NoCalls
  /\ escaped = "none"
  /\ created = 0
  /\ files = NoFiles
  /\ csv = NoCsv

\* ------------------------------------------------------------ user events
\* Any event re-executes main() with the widget values of that moment.
BeginRun(c, ufs, s) ==
  /\ pc = "idle"
  /\ HasAllowed(ufs) => files.tmp_img + files.tmp_csv < MaxFiles
  /\ pc' = "auth"
  /\ status' = "running"
  /\ clicked' = c
  /\ uploaded_files' = ufs
  /\ sel' = s
  /\ drive' = "unset"
  /\ drive_images' = << >>
  /\ shown' = NoImage
  /\ inputs' = NoInputs
  /\ ui' = {}
  /\ notices' = {}
  /\ calls' = NoCalls
  /\ escaped' = "none"
  /\ created' = 0
  /\ csv' = NoCsv
  /\ UNCHANGED << session_state, files >>

\* the page is opened or reloaded, or a text or number input is edited
PageLoad ==
  /\ pc = "idle"
  /\ BeginRun(NoClick, uploaded_files, sel)

\* the content of the file uploader is changed
UserUploads ==
  /\ "uploader" \in ui
  /\ \E ufs \in UploaderContents \ {uploaded_files} : BeginRun(NoClick, ufs, sel)

\* another image is chosen in the selectbox
UserSelects ==
  /\ "selectbox" \in ui
  /\ \E i \in 1..Len(drive_images) :
       /\ drive_images[i].title # sel
       /\ BeginRun(NoClick, uploaded_files, drive_images[i].title)

\* 'Save Annotation for <title>' is clicked
ClickSave ==
  /\ "save" \in ui
  /\ Len(Session) < MaxSession
  /\ BeginRun(SaveClick(sel), uploaded_files, sel)

\* 'Save All Annotations to Google Drive' is clicked
ClickExport ==
  /\ "export" \in ui
  /\ HasAnnotations(Session) => files.tmp_img + files.tmp_csv < MaxFiles
  /\ BeginRun(ExportClick, uploaded_files, sel)

\* ---------------------------------------------------------------- main()
\* lines 126-128
Authenticate ==
  /\ pc = "auth"
  /\ \E answer \in AuthAnswers :
       LET drv == authenticate_drive(answer)
       IN /\ drive' = drv
          /\ notices' = IF drv = None THEN notices \cup {"auth_failed"} ELSE notices
          /\ IF HaltsRun(drv)
             THEN pc' = "idle" /\ status' = "halted"
             ELSE pc' = "list" /\ status' = status
  /\ UNCHANGED << session_state, uploaded_files, sel, clicked, drive_images, shown,
                  inputs, ui, calls, escaped, created, files, csv >>

\* lines 130-151
ListImages ==
  /\ pc = "list"
  /\ \E answer \in ListAnswers :
       /\ drive_images' = list_drive_images(drive, answer)
       /\ notices' = IF drive = None \/ answer.raises
                     THEN notices \cup {"list_failed"} ELSE notices
  /\ calls' = [calls EXCEPT !.list = @ + 1]
  /\ pc' = "upload"
  /\ UNCHANGED << status, session_state, uploaded_files, sel, clicked, drive, shown,
                  inputs, ui, escaped, created, files, csv >>

\* lines 153-181; an exception leaving the loop ends main at line 260
UploadFiles ==
  /\ pc = "upload"
  /\ ui' = ui \cup {"uploader"}
  /\ \E answer \in UploadAnswers :
       LET r == UploadLoop(uploaded_files,
                           [files |-> files, calls |-> calls, created |-> created,
                            notices |-> notices, raised |-> FALSE], answer)
       IN /\ files' = r.files
          /\ calls' = r.calls
          /\ created' = r.created
          /\ IF r.raised
             THEN /\ escaped' = "upload_to_drive"
                  /\ notices' = r.notices \cup {"unexpected_error"}
                  /\ pc' = "idle"
                  /\ status' = "crashed"
             ELSE /\ escaped' = escaped
                  /\ notices' = r.notices
                  /\ pc' = "editor"
                  /\ status' = status
  /\ UNCHANGED << session_state, uploaded_files, sel, clicked, drive, drive_images,
                  shown, inputs, csv >>

\* lines 183-229: session initialisation, image selection, download, editor
Annotate ==
  /\ pc = "editor"
  /\ pc' = "export"
  /\ LET annotations == Session      \* lines 187-188 make the key exist
     IN IF drive_images = << >>
        THEN /\ session_state' = [k \in {"annotations"} |-> annotations]
             /\ notices' = notices \cup {"no_images"}
             /\ UNCHANGED << sel, shown, inputs, ui, calls, files >>
        ELSE LET image_options == ImageOptions(drive_images)
                 titles == DictKeys(image_options)
                 selected_image_title ==
                   IF \E i \in 1..Len(titles) : titles[i] = sel THEN sel ELSE titles[1]
                 selected_image_id == DictGet(image_options, selected_image_title)
             IN \E answer \in DownloadAnswers :
                  LET r == download_image(selected_image_id, answer)
                  IN /\ sel' = selected_image_title
                     /\ calls' = [calls EXCEPT !.download = @ + 1]
                     /\ files' = [files EXCEPT !.temp_image = @ + r.temp_image]
                     /\ shown' = [title |-> selected_image_title, image |-> r.image]
                     /\ IF r.image = None
                        THEN /\ session_state' = [k \in {"annotations"} |-> annotations]
                             /\ notices' = notices \cup {"download_failed"}
                             /\ ui' = ui \cup {"selectbox"}
                             /\ UNCHANGED inputs
                        ELSE \E label \in Labels,
                                x_min \in 0..ImageShape[2], y_min \in 0..ImageShape[1],
                                x_max \in 0..ImageShape[2], y_max \in 0..ImageShape[1] :
                               LET pressed == clicked = SaveClick(selected_image_title)
                                   invalid == InvalidCoordinates(x_min, y_min, x_max, y_max)
                                   annotation == Annotation(selected_image_title, label,
                                                            x_min, y_min, x_max, y_max)
                               IN /\ ui' = ui \cup {"selectbox", "save"}
                                  /\ inputs' = IF pressed
                                               THEN [label |-> label, x_min |-> x_min,
                                                     y_min |-> y_min, x_max |-> x_max,
                                                     y_max |-> y_max]
                                               ELSE NoInputs
                                  /\ session_state' =
                                       [k \in {"annotations"} |->
                                          IF pressed /\ ~invalid
                                          THEN AppendAnnotation(annotations, annotation)
                                          ELSE annotations]
                                  /\ notices' =
                                       IF ~pressed THEN notices
                                       ELSE IF invalid
                                       THEN notices \cup {"invalid_coordinates"}
                                       ELSE notices \cup {"annotation_saved"}
  /\ UNCHANGED << status, uploaded_files, clicked, drive, drive_images, escaped,
                  created, csv >>

\* lines 231-255: the export button; main ends here
Export ==
  /\ pc = "export"
  /\ pc' = "idle"
  /\ status' = "completed"
  /\ ui' = ui \cup {"export"}
  /\ IF clicked # ExportClick
     THEN UNCHANGED << session_state, notices, calls, escaped, created, files, csv >>
     ELSE IF ~HasAnnotations(Session)
     THEN /\ notices' = notices \cup {"nothing_to_export"}
          /\ UNCHANGED << session_state, calls, escaped, created, files, csv >>
     ELSE \E answer \in UploadAnswers :
            LET df == DataFrame(Session)                      \* line 236
                file_id == upload_to_drive(PathArg, answer)   \* line 241
                raised == file_id = "raised"
            IN /\ csv' = to_csv(df)                           \* lines 238-239
               /\ calls' = [calls EXCEPT !.upload = @ + 1]
               \* os.unlink at line 242 is skipped when line 241 raises
               /\ files' = [files EXCEPT !.tmp_csv = IF raised THEN @ + 1 ELSE @]
               /\ created' = created + (IF file_id = "id" THEN 1 ELSE 0)
               /\ escaped' = IF raised THEN "upload_to_drive" ELSE escaped
               /\ notices' = notices \cup
                    (IF raised THEN {"export_failed"}
                     ELSE IF file_id = None THEN {"upload_failed", "export_success"}
                     ELSE {"export_success"})
               /\ session_state' = [session_state EXCEPT !["annotations"] =
                                      SessionAfterExport(Session, raised)]
  /\ UNCHANGED << uploaded_files, sel, clicked, drive, drive_images, shown, inputs >>

Next ==
  \/ PageLoad
  \/ UserUploads
  \/ UserSelects
  \/ ClickSave
  \/ ClickExport
  \/ Authenticate
  \/ ListImages
  \/ UploadFiles
  \/ Annotate
  \/ Export

Spec == Init /\ [][Next]_vars

\* ----------------------------------------------------------------- claims
Field(annotation, k) == DictGet(annotation, k)
IsPrefix(a, b) == Len(a) <= Len(b) /\ SubSeq(b, 1, Len(a)) = a
Schema == << "filename", "label", "x_min", "y_min", "x_max", "y_max" >>

\* C1: an export of a non-empty Session whose upload produces no remote file
\* leaves the Session as it was and declares no success.
C1_FailedUploadKeepsSession ==
  [][ (pc = "export" /\ clicked = ExportClick /\ Session # << >> /\ created' = created)
      => (session_state' = session_state /\ "export_success" \notin notices') ]_vars

C1_Witness ==
  /\ pc = "idle"
  /\ clicked = ExportClick
  /\ "export_failed" \in notices
  /\ calls.upload = 1
  /\ created = 0
  /\ Len(Session) = 1

\* C2: 'Save Annotation' rejects exactly the inputs with x_min >= x_max or
\* y_min >= y_max, leaving the Session unchanged; every other input is
\* accepted whatever the label.
C2_SaveRejectsExactlyInvalid ==
  [][ (pc = "editor" /\ inputs' # NoInputs)
      => IF inputs'.x_min >= inputs'.x_max \/ inputs'.y_min >= inputs'.y_max
         THEN Session' = Session /\ "annotation_saved" \notin notices'
         ELSE Len(Session') = Len(Session) + 1 /\ "annotation_saved" \in notices' ]_vars

C2_Witness ==
  /\ "invalid_coordinates" \in notices
  /\ inputs.x_min = inputs.x_max
  /\ inputs.y_min < inputs.y_max
  /\ \E i \in 1..Len(Session) : Field(Session[i], "label").s = ""

\* C3: no exception leaves a remote-store operation called as main calls it.
C3_NoExceptionEscapes == escaped = "none"

\* C4: no transient local file exists once the operation that made it is over.
C4_NoTransientFileRemains == files = NoFiles

\* C5: an export of an empty Session makes no remote call, creates no
\* transient file and leaves the Session empty.
C5_EmptyExportDoesNothing ==
  [][ (pc = "export" /\ clicked = ExportClick /\ Session = << >>)
      => (calls' = calls /\ created' = created /\ files' = files /\ csv' = NoCsv
          /\ Session' = << >>) ]_vars

C5_Witness ==
  /\ pc = "idle"
  /\ "nothing_to_export" \in notices
  /\ Session = << >>
  /\ calls.upload = 0

\* C6: the export of a non-empty Session writes the header (filename, label,
\* x_min, y_min, x_max, y_max) and then one row per record, in Session order,
\* each holding the record's six values.
C6_CsvIsTheSession ==
  [][ (pc = "export" /\ clicked = ExportClick /\ Session # << >>)
      => /\ Len(csv') = Len(Session) + 1
         /\ csv'[1] = Schema
         /\ \A i \in 1..Len(Session) :
              csv'[i + 1] = << Field(Session[i], "filename").s,
                               Field(Session[i], "label").s,
                               ToString(Field(Session[i], "x_min").n),
                               ToString(Field(Session[i], "y_min").n),
                               ToString(Field(Session[i], "x_max").n),
                               ToString(Field(Session[i], "y_max").n) >> ]_vars

C6_Witness ==
  /\ pc = "idle"
  /\ Len(csv) = 3
  /\ Len(Session) = 2
  /\ Field(Session[1], "filename").s = "b.png"
  /\ Field(Session[1], "label").s = "cat"
  /\ Field(Session[2], "filename").s = "a.jpg"
  /\ Field(Session[2], "label").s = ""

\* C7: an accepted 'Save Annotation' appends exactly one record at the end of
\* the Session, made of the selected title, the label and the four bounds;
\* no step reorders the records or drops an equal one.
C7_AcceptedSaveAppends ==
  [][ /\ ("annotation_saved" \in notices' /\ pc = "editor")
         => /\ Len(Session') = Len(Session) + 1
            /\ IsPrefix(Session, Session')
            /\ DictKeys(Session'[Len(Session')]) = Schema
            /\ Field(Session'[Len(Session')], "filename") = PyStr(shown'.title)
            /\ Field(Session'[Len(Session')], "label") = PyStr(inputs'.label)
            /\ Field(Session'[Len(Session')], "x_min") = PyInt(inputs'.x_min)
            /\ Field(Session'[Len(Session')], "y_min") = PyInt(inputs'.y_min)
            /\ Field(Session'[Len(Session')], "x_max") = PyInt(inputs'.x_max)
            /\ Field(Session'[Len(Session')], "y_max") = PyInt(inputs'.y_max)
      /\ ~("annotation_saved" \in notices' /\ pc = "editor")
         => (Session' = Session \/ Session' = << >>) ]_vars

C7_Witness ==
  /\ "annotation_saved" \in notices
  /\ Len(Session) = 2
  /\ Session[1] = Session[2]

\* C8: the Session starts empty; a step either keeps every record it holds
\* (possibly appending) or is a successful export, and a successful export
\* leaves it empty.
C8_ClearedOnlyBySuccessfulExport ==
  /\ Session = << >>
  /\ [][ \/ IsPrefix(Session, Session')
         \/ (pc = "export" /\ "export_success" \in notices' /\ Session' = << >>) ]_vars
  /\ [][ (pc = "export" /\ "export_success" \in notices') => Session' = << >> ]_vars

C8_Witness ==
  /\ pc = "idle"
  /\ "download_failed" \in notices
  /\ uploaded_files # << >>
  /\ files.tmp_csv = 1
  /\ Len(Session) = 2

\* C9: once authenticate_drive returned None the run is over: no list,
\* upload or download is invoked in it and the Session is not modified.
C9_AuthFailureHalts ==
  [][ drive' = None
      => (calls' = NoCalls /\ session_state' = session_state
          /\ pc' = "idle" /\ status' = "halted") ]_vars

C9_Witness ==
  /\ drive = None
  /\ status = "halted"
  /\ clicked = ExportClick
  /\ Session # << >>

\* C10: every record of the Session has 0 <= x_min < x_max and
\* 0 <= y_min < y_max, and when it was appended its filename was the title of
\* a listed image that the same run had downloaded.
C10_RecordsAreValid ==
  /\ [](\A i \in 1..Len(Session) :
          /\ 0 <= Field(Session[i], "x_min").n
          /\ Field(Session[i], "x_min").n < Field(Session[i], "x_max").n
          /\ 0 <= Field(Session[i], "y_min").n
          /\ Field(Session[i], "y_min").n < Field(Session[i], "y_max").n)
  /\ [][ Len(Session') > Len(Session)
         => /\ shown'.image # None
            /\ calls'.download = 1
            /\ \E i \in 1..Len(drive_images') :
                 drive_images'[i] = [id |-> shown'.image,
                                     title |-> Field(Session'[Len(Session')], "filename").s] ]_vars

C10_Witness ==
  /\ Len(Session) = 2
  /\ Field(Session[1], "filename").s = "a.jpg"
  /\ Field(Session[2], "filename").s = "b.png"
  /\ shown = [title |-> "b.png", image |-> "id2"]

====
